---- MODULE Spec2Model ----
(***************************************************************************)
(* Model of the todo hyperprocess (src/todo/src/lib.rs): the task store    *)
(* (TodoState.tasks), the HTTP task handlers, the WebSocket handler, the   *)
(* demo / routing handlers and the route table they are registered in.     *)
(***************************************************************************)
EXTENDS Integers, Sequences, FiniteSets, TLC

VARIABLES tasks, ws_channels, connected, sleeping, pushed, last

vars == <<tasks, ws_channels, connected, sleeping, pushed, last>>

(***************************************************************************)
(* Bounds of the model.                                                    *)
(***************************************************************************)
MaxTasks == 2
NumChannels == 2
MaxSleeping == 1

(***************************************************************************)
(* Value spaces.  A text is a sequence of characters; " " is whitespace.   *)
(* A task id is a string: 1..MaxTasks stand for the strings Uuid::new_v4   *)
(* can produce, 0 for a string that is no generated id ("nonexistent").    *)
(***************************************************************************)
Texts == {<<>>, <<" ">>, <<" ", "a", " ">>}

UuidSpace == 1..MaxTasks

IdStrings == 0..MaxTasks

Channels == 1..NumChannels

Messages == {"alice"}

(***************************************************************************)
(* str::trim: strip leading and trailing whitespace.                       *)
(***************************************************************************)
IsWhitespace(c) == c = " "

RECURSIVE TrimStart(_)
TrimStart(s) ==
    IF s # <<>> /\ IsWhitespace(Head(s)) THEN TrimStart(Tail(s)) ELSE s

RECURSIVE TrimEnd(_)
TrimEnd(s) ==
    IF s # <<>> /\ IsWhitespace(s[Len(s)])
    THEN TrimEnd(SubSeq(s, 1, Len(s) - 1))
    ELSE s

Trim(s) == TrimEnd(TrimStart(s))

(***************************************************************************)
(* struct TodoItem and results.                                            *)
(***************************************************************************)
TodoItem(id, text, completed) ==
    [id |-> id, text |-> text, completed |-> completed]

Ok(v) == [ok |-> TRUE, val |-> v]

Err(e) == [ok |-> FALSE, val |-> e]

(***************************************************************************)
(* Uuid::new_v4().to_string(): an id no earlier call has returned (the     *)
(* generator's contract); which one is not determined.                     *)
(***************************************************************************)
IdsOf(store) == {store[i].id : i \in 1..Len(store)}

\* Faulty variant of the generator: it may return an id it returned before.
NewV4_Repeating(store) == UuidSpace

NewV4(store) == UuidSpace \ IdsOf(store)

(***************************************************************************)
(* iter_mut().find(|t| t.id == id): index of the first task with that id,  *)
(* 0 when there is none.                                                   *)
(***************************************************************************)
Find(store, id) ==
    LET hits == {i \in 1..Len(store) : store[i].id = id}
    IN  IF hits = {} THEN 0
        ELSE CHOOSE i \in hits : \A j \in hits : i <= j

Flip(store, i) ==
    [store EXCEPT ![i] = TodoItem(store[i].id, store[i].text, ~store[i].completed)]

(***************************************************************************)
(* The record of the most recent event (observation only): which handler *)
(* ran for which request, what it returned, and the store (pre) and the    *)
(* connection sets (prech) it started from.  again / pre2: the event       *)
(* before it was a successful toggle_task of the same id, started from     *)
(* store pre2.  For the resumption of create_user_slow, pre2 is the store  *)
(* at the time the request was suspended.                                  *)
(***************************************************************************)
NoReq == [method |-> "", path |-> <<>>, arg |-> 0]

Event(kind, handler, chan, req, ret, pre) ==
    [kind |-> kind, handler |-> handler, chan |-> chan, req |-> req,
     ret |-> ret, pre |-> pre, prech |-> <<ws_channels, connected>>,
     again |-> FALSE, pre2 |-> <<>>]

Init ==
    /\ tasks = <<>>
    /\ ws_channels = {}
    /\ connected = {}
    /\ sleeping = <<>>
    /\ pushed = <<>>
    /\ last = [kind |-> "init", handler |-> "initialize", chan |-> 0, req |-> NoReq,
               ret |-> Ok(0), pre |-> <<>>, prech |-> <<{}, {}>>,
               again |-> FALSE, pre2 |-> <<>>]

(***************************************************************************)
(* Faulty variants of add_task: the new task is put in front of the store; *)
(* the text is tested for emptiness without trimming it.                   *)
(***************************************************************************)
add_task_PushFront(text) ==
    IF Trim(text) = <<>>
    THEN /\ last' = Event("http", "add_task", 0, text,
                          Err("Task text cannot be empty"), tasks)
         /\ UNCHANGED <<tasks, ws_channels, connected, sleeping>>
         /\ pushed' = <<>>
    ELSE /\ Len(tasks) < MaxTasks
         /\ \E id \in NewV4(tasks) :
              LET new_task == TodoItem(id, text, FALSE)
              IN  /\ tasks' = <<new_task>> \o tasks
                  /\ last' = Event("http", "add_task", 0, text, Ok(new_task), tasks)
         /\ UNCHANGED <<ws_channels, connected, sleeping>>
         /\ pushed' = <<>>

add_task_NoTrim(text) ==
    IF text = <<>>
    THEN /\ last' = Event("http", "add_task", 0, text,
                          Err("Task text cannot be empty"), tasks)
         /\ UNCHANGED <<tasks, ws_channels, connected, sleeping>>
         /\ pushed' = <<>>
    ELSE /\ Len(tasks) < MaxTasks
         /\ \E id \in NewV4(tasks) :
              LET new_task == TodoItem(id, text, FALSE)
              IN  /\ tasks' = Append(tasks, new_task)
                  /\ last' = Event("http", "add_task", 0, text, Ok(new_task), tasks)
         /\ UNCHANGED <<ws_channels, connected, sleeping>>
         /\ pushed' = <<>>

\* Faulty variant of add_task: the new task is announced to the channels.
add_task_Notify(text) ==
    IF Trim(text) = <<>>
    THEN /\ last' = Event("http", "add_task", 0, text,
                          Err("Task text cannot be empty"), tasks)
         /\ UNCHANGED <<tasks, ws_channels, connected, sleeping>>
         /\ pushed' = <<>>
    ELSE /\ Len(tasks) < MaxTasks
         /\ \E id \in NewV4(tasks) :
              LET new_task == TodoItem(id, text, FALSE)
              IN  /\ tasks' = Append(tasks, new_task)
                  /\ last' = Event("http", "add_task", 0, text, Ok(new_task), tasks)
                  /\ pushed' = [k \in 1..NumChannels |->
                                  [chan |-> k,
                                   envelope |-> [type |-> "task_added", task |-> new_task,
                                                 tasks |-> tasks']]]
         /\ UNCHANGED <<ws_channels, connected, sleeping>>

(***************************************************************************)
(* #[http] add_task(text)                                                  *)
(***************************************************************************)
add_task(text) ==
    IF Trim(text) = <<>>
    THEN /\ last' = Event("http", "add_task", 0, text,
                          Err("Task text cannot be empty"), tasks)
         /\ UNCHANGED <<tasks, ws_channels, connected, sleeping>>
         /\ pushed' = <<>>
    ELSE /\ Len(tasks) < MaxTasks
         /\ \E id \in NewV4(tasks) :
              LET new_task == TodoItem(id, text, FALSE)
              IN  /\ tasks' = Append(tasks, new_task)
                  /\ last' = Event("http", "add_task", 0, text, Ok(new_task), tasks)
         /\ UNCHANGED <<ws_channels, connected, sleeping>>
         /\ pushed' = <<>>

(***************************************************************************)
(* #[http] get_tasks(request)                                              *)
(***************************************************************************)
get_tasks(request) ==
    /\ last' = Event("http", "get_tasks", 0, request, Ok(tasks), tasks)
    /\ pushed' = <<>>
    /\ UNCHANGED <<tasks, ws_channels, connected, sleeping>>

(***************************************************************************)
(* Faulty variants of toggle_task: completed is set instead of flipped; an *)
(* id that is not found falls back to the first task.                      *)
(***************************************************************************)
toggle_task_SetTrue(task_id) ==
    LET i == Find(tasks, task_id)
        again == /\ last.kind = "http"
                 /\ last.handler = "toggle_task"
                 /\ last.ret.ok
                 /\ last.req = task_id
    IN  IF i # 0
        THEN /\ tasks' = [tasks EXCEPT ![i].completed = TRUE]
             /\ last' = [Event("http", "toggle_task", 0, task_id, Ok(tasks'[i]), tasks)
                            EXCEPT !.again = again,
                                   !.pre2 = IF again THEN last.pre ELSE <<>>]
             /\ pushed' = <<>>
             /\ UNCHANGED <<ws_channels, connected, sleeping>>
        ELSE /\ last' = Event("http", "toggle_task", 0, task_id,
                              Err(<<"Task with id '", task_id, "' not found">>), tasks)
             /\ pushed' = <<>>
             /\ UNCHANGED <<tasks, ws_channels, connected, sleeping>>

toggle_task_DefaultFirst(task_id) ==
    LET found == Find(tasks, task_id)
        i == IF found = 0 /\ tasks # <<>> THEN 1 ELSE found
    IN  IF i # 0
        THEN /\ tasks' = Flip(tasks, i)
             /\ last' = Event("http", "toggle_task", 0, task_id, Ok(tasks'[i]), tasks)
             /\ pushed' = <<>>
             /\ UNCHANGED <<ws_channels, connected, sleeping>>
        ELSE /\ last' = Event("http", "toggle_task", 0, task_id,
                              Err(<<"Task with id '", task_id, "' not found">>), tasks)
             /\ pushed' = <<>>
             /\ UNCHANGED <<tasks, ws_channels, connected, sleeping>>

(***************************************************************************)
(* #[http] toggle_task(task_id)                                            *)
(***************************************************************************)
toggle_task(task_id) ==
    LET i == Find(tasks, task_id)
        again == /\ last.kind = "http"
                 /\ last.handler = "toggle_task"
                 /\ last.ret.ok
                 /\ last.req = task_id
    IN  IF i # 0
        THEN /\ tasks' = Flip(tasks, i)
             /\ last' = [Event("http", "toggle_task", 0, task_id, Ok(tasks'[i]), tasks)
                            EXCEPT !.again = again,
                                   !.pre2 = IF again THEN last.pre ELSE <<>>]
             /\ pushed' = <<>>
             /\ UNCHANGED <<ws_channels, connected, sleeping>>
        ELSE /\ last' = Event("http", "toggle_task", 0, task_id,
                              Err(<<"Task with id '", task_id, "' not found">>), tasks)
             /\ pushed' = <<>>
             /\ UNCHANGED <<tasks, ws_channels, connected, sleeping>>

(***************************************************************************)
(* The bytes of a WebSocket frame, by what String::from_utf8,              *)
(* serde_json::from_str and json.get(..).and_then(as_str) make of them.    *)
(* A JSON value is absent, a string, or something that is no string.       *)
(***************************************************************************)
Absent == [t |-> "absent"]

NonStr == [t |-> "number"]

Str(x) == [t |-> "str", s |-> x]

as_str(v) == v.t = "str"

Blob(enc, action, text, id) ==
    [enc |-> enc, action |-> action, text |-> text, id |-> id]

EmptyBlob == Blob("none", Absent, Absent, Absent)

Blobs ==
    {Blob("invalid_utf8", Absent, Absent, Absent),
     Blob("not_json", Absent, Absent, Absent),
     Blob("json", Absent, Absent, Absent),
     Blob("json", NonStr, Absent, Absent),
     Blob("json", Str("delete_task"), Absent, Absent),
     Blob("json", Str("get_tasks"), Absent, Absent)}
    \cup {Blob("json", Str("add_task"), t, Absent) :
            t \in {Absent, NonStr} \cup {Str(x) : x \in Texts}}
    \cup {Blob("json", Str("toggle_task"), Absent, i) :
            i \in {Absent, NonStr} \cup {Str(x) : x \in IdStrings}}

\* Bytes of a frame that is no text frame: none, or what would be a valid
\* add_task command in a text frame.
OtherBlobs == {EmptyBlob, Blob("json", Str("add_task"), Str(<<"a">>), Absent)}

WsMessageType == {"Text", "Binary", "Ping", "Pong", "Close"}

Frame(message_type, blob) == [message_type |-> message_type, blob |-> blob]

(***************************************************************************)
(* send_ws_push(channel_id, WsMessageType::Text, blob): one outbound frame *)
(* to one channel.  The blob is the serialized JSON envelope.              *)
(***************************************************************************)
Push(channel_id, envelope) == [chan |-> channel_id, envelope |-> envelope]

send_ws_push(channel_id, envelope) == <<Push(channel_id, envelope)>>

TasksOverview(store) == [type |-> "tasks_overview", tasks |-> store]

TaskAdded(task, store) == [type |-> "task_added", task |-> task, tasks |-> store]

TaskToggled(task, store) == [type |-> "task_toggled", task |-> task, tasks |-> store]

(***************************************************************************)
(* A client opens a channel on the /ws binding.  The host tracks the open  *)
(* channel; no code of the process touches ws_channels.                    *)
(***************************************************************************)
ws_open(channel_id) ==
    /\ channel_id \notin connected
    /\ connected' = connected \cup {channel_id}
    /\ last' = Event("open", "none", channel_id, NoReq, Ok(0), tasks)
    /\ pushed' = <<>>
    /\ UNCHANGED <<tasks, ws_channels, sleeping>>

\* Faulty variant of the get_tasks arm: the overview goes to every channel.
ws_get_tasks_ToAll(channel_id) ==
    /\ pushed' = [k \in 1..NumChannels |-> Push(k, TasksOverview(tasks))]
    /\ UNCHANGED tasks

(***************************************************************************)
(* #[ws] websocket(channel_id, message_type, blob)                         *)
(***************************************************************************)
ws_get_tasks(channel_id) ==
    /\ pushed' = send_ws_push(channel_id, TasksOverview(tasks))
    /\ UNCHANGED tasks

\* Faulty variants of the add_task arm: the envelope carries the store as it
\* was before the push; the stored text is the trimmed one.
ws_add_task_StaleSnapshot(channel_id, blob) ==
    IF as_str(blob.text) /\ Trim(blob.text.s) # <<>>
    THEN /\ Len(tasks) < MaxTasks
         /\ \E id \in NewV4(tasks) :
              LET new_task == TodoItem(id, blob.text.s, FALSE)
              IN  /\ tasks' = Append(tasks, new_task)
                  /\ pushed' = send_ws_push(channel_id, TaskAdded(new_task, tasks))
    ELSE /\ pushed' = <<>>
         /\ UNCHANGED tasks

ws_add_task_Trimmed(channel_id, blob) ==
    IF as_str(blob.text) /\ Trim(blob.text.s) # <<>>
    THEN /\ Len(tasks) < MaxTasks
         /\ \E id \in NewV4(tasks) :
              LET new_task == TodoItem(id, Trim(blob.text.s), FALSE)
              IN  /\ tasks' = Append(tasks, new_task)
                  /\ pushed' = send_ws_push(channel_id, TaskAdded(new_task, tasks'))
    ELSE /\ pushed' = <<>>
         /\ UNCHANGED tasks

ws_add_task(channel_id, blob) ==
    IF as_str(blob.text) /\ Trim(blob.text.s) # <<>>
    THEN /\ Len(tasks) < MaxTasks
         /\ \E id \in NewV4(tasks) :
              LET new_task == TodoItem(id, blob.text.s, FALSE)
              IN  /\ tasks' = Append(tasks, new_task)
                  /\ pushed' = send_ws_push(channel_id, TaskAdded(new_task, tasks'))
    ELSE /\ pushed' = <<>>
         /\ UNCHANGED tasks

\* Faulty variants of the toggle_task arm: a task that becomes completed is
\* taken out of the store; an id that is not found is answered with an error
\* envelope.
ws_toggle_task_Remove(channel_id, blob) ==
    LET i == IF as_str(blob.id) THEN Find(tasks, blob.id.s) ELSE 0
    IN  IF i # 0
        THEN /\ tasks' = IF tasks[i].completed
                         THEN Flip(tasks, i)
                         ELSE SubSeq(tasks, 1, i - 1) \o SubSeq(tasks, i + 1, Len(tasks))
             /\ pushed' = send_ws_push(channel_id, TaskToggled(Flip(tasks, i)[i], tasks'))
        ELSE /\ pushed' = <<>>
             /\ UNCHANGED tasks

ws_toggle_task_ErrorFrame(channel_id, blob) ==
    LET i == IF as_str(blob.id) THEN Find(tasks, blob.id.s) ELSE 0
    IN  IF i # 0
        THEN /\ tasks' = Flip(tasks, i)
             /\ pushed' = send_ws_push(channel_id, TaskToggled(tasks'[i], tasks'))
        ELSE /\ pushed' = send_ws_push(channel_id, [type |-> "error", tasks |-> tasks])
             /\ UNCHANGED tasks

ws_toggle_task(channel_id, blob) ==
    LET i == IF as_str(blob.id) THEN Find(tasks, blob.id.s) ELSE 0
    IN  IF i # 0
        THEN /\ tasks' = Flip(tasks, i)
             /\ pushed' = send_ws_push(channel_id, TaskToggled(tasks'[i], tasks'))
        ELSE /\ pushed' = <<>>
             /\ UNCHANGED tasks

\* Faulty variant of the text arm: an unknown action or an undecodable frame
\* is answered with the task overview.
ws_text_ReplyAlways(channel_id, blob) ==
    IF blob.enc = "json" /\ as_str(blob.action)
    THEN CASE blob.action.s = "get_tasks" -> ws_get_tasks(channel_id)
           [] blob.action.s = "add_task" -> ws_add_task(channel_id, blob)
           [] blob.action.s = "toggle_task" -> ws_toggle_task(channel_id, blob)
           [] OTHER -> ws_get_tasks(channel_id)
    ELSE ws_get_tasks(channel_id)

ws_text(channel_id, blob) ==
    IF blob.enc = "json" /\ as_str(blob.action)
    THEN CASE blob.action.s = "get_tasks" -> ws_get_tasks(channel_id)
           [] blob.action.s = "add_task" -> ws_add_task(channel_id, blob)
           [] blob.action.s = "toggle_task" -> ws_toggle_task(channel_id, blob)
           [] OTHER -> pushed' = <<>> /\ UNCHANGED tasks
    ELSE pushed' = <<>> /\ UNCHANGED tasks

websocket(channel_id, message_type, blob) ==
    /\ channel_id \in connected
    /\ last' = Event("ws", "websocket", channel_id, Frame(message_type, blob),
                     Ok(0), tasks)
    /\ IF message_type = "Text"
       THEN ws_text(channel_id, blob)
       ELSE pushed' = <<>> /\ UNCHANGED tasks
    /\ connected' = IF message_type = "Close"
                    THEN connected \ {channel_id}
                    ELSE connected
    /\ UNCHANGED <<ws_channels, sleeping>>

(***************************************************************************)
(* HTTP requests of the demo / routing surface.  A path is its sequence of *)
(* segments: <<"api", "data">> is "/api/data".                             *)
(***************************************************************************)
Methods == {"GET", "POST", "PUT", "DELETE", "PATCH", "HEAD"}

Paths ==
    {<<"users">>, <<"users-slow">>, <<"posts">>, <<"api", "data">>,
     <<"api", "unknown">>, <<"admin", "dashboard">>, <<"test", "something">>,
     <<"anything">>}

Request(method, path, message) ==
    [method |-> method, path |-> path, arg |-> message]

\* path.starts_with("/<prefix>/")
starts_with(path, prefix) == Len(path) >= 2 /\ path[1] = prefix

(***************************************************************************)
(* The routes the #[http(...)] attributes register: with method and path   *)
(* (exact), with a method only (method-scoped fallback).  No handler that  *)
(* describes an unmatched request is registered without a method, so the   *)
(* set of global catch-all handlers is empty.                              *)
(***************************************************************************)
Route(method, path, handler) ==
    [method |-> method, path |-> path, handler |-> handler]

\* Faulty variant of the exact routes: get_users is registered for "/user".
ExactRoutes_Typo ==
    {Route("GET", <<"user">>, "get_users"),
     Route("POST", <<"users">>, "create_user"),
     Route("POST", <<"users-slow">>, "create_user_slow"),
     Route("GET", <<"posts">>, "get_posts"),
     Route("POST", <<"api", "data">>, "process_data")}

ExactRoutes ==
    {Route("GET", <<"users">>, "get_users"),
     Route("POST", <<"users">>, "create_user"),
     Route("POST", <<"users-slow">>, "create_user_slow"),
     Route("GET", <<"posts">>, "get_posts"),
     Route("POST", <<"api", "data">>, "process_data")}

FallbackRoutes ==
    {Route("GET", <<>>, "handle_api_get_fallback"),
     Route("POST", <<>>, "handle_post_fallback"),
     Route("PUT", <<>>, "handle_put_fallback"),
     Route("DELETE", <<>>, "handle_delete_fallback"),
     Route("PATCH", <<>>, "handle_patch_fallback")}

CatchAllRoutes == {}

\* Faulty variant of the resolution: a request nothing matches is given to
\* the GET fallback instead of failing.
Resolve_NoFailure(method, path) ==
    LET exact == {r \in ExactRoutes : r.method = method /\ r.path = path}
        fallback == {r \in FallbackRoutes : r.method = method}
    IN  IF exact # {} THEN (CHOOSE r \in exact : TRUE).handler
        ELSE IF fallback # {} THEN (CHOOSE r \in fallback : TRUE).handler
        ELSE "handle_api_get_fallback"

(***************************************************************************)
(* Route resolution: exact route, else the method's fallback, else the     *)
(* catch-all, else NoRouteFound.                                           *)
(***************************************************************************)
NoRouteFound == "NoRouteFound"

Resolve(method, path) ==
    LET exact == {r \in ExactRoutes : r.method = method /\ r.path = path}
        fallback == {r \in FallbackRoutes : r.method = method}
    IN  IF exact # {} THEN (CHOOSE r \in exact : TRUE).handler
        ELSE IF fallback # {} THEN (CHOOSE r \in fallback : TRUE).handler
        ELSE IF CatchAllRoutes # {} THEN (CHOOSE r \in CatchAllRoutes : TRUE).handler
        ELSE NoRouteFound

(***************************************************************************)
(* ApiResponse::new(data) in the context of request req.                   *)
(***************************************************************************)
ApiResponse_new(req, data) ==
    [status |-> "success", data |-> data, path |-> req.path, method |-> req.method]

get_users(req) == ApiResponse_new(req, <<"List of users">>)

create_user(req) == Ok(ApiResponse_new(req, <<"Created user: ", req.arg>>))

get_posts(req) == ApiResponse_new(req, <<"List of posts">>)

process_data(req) == Ok(ApiResponse_new(req, <<"Processed: ", req.arg>>))

handle_api_get_fallback(req) ==
    IF starts_with(req.path, "api")
    THEN ApiResponse_new(req, <<"API GET fallback for ", req.path>>)
    ELSE IF starts_with(req.path, "admin")
    THEN ApiResponse_new(req, <<"Admin GET fallback for ", req.path>>)
    ELSE IF starts_with(req.path, "test")
    THEN ApiResponse_new(req, <<"Test GET fallback for ", req.path>>)
    ELSE ApiResponse_new(req, <<"Unexpected GET fallback for ", req.path>>)

handle_post_fallback(req) ==
    IF starts_with(req.path, "api")
    THEN Ok(ApiResponse_new(req, <<"API POST to ", req.path, " with: ", req.arg>>))
    ELSE Ok(ApiResponse_new(req, <<"General POST to ", req.path, " with: ", req.arg>>))

\* Faulty variant of handle_put_fallback: the path is left out of the data.
handle_put_fallback_NoPath(req) ==
    ApiResponse_new(req, <<"Catch-all: ", req.method>>)

handle_put_fallback(req) ==
    ApiResponse_new(req, <<"Catch-all: ", req.method, " ", req.path>>)

handle_delete_fallback(req) ==
    ApiResponse_new(req, <<"Catch-all: ", req.method, " ", req.path>>)

handle_patch_fallback(req) ==
    ApiResponse_new(req, <<"Catch-all: ", req.method, " ", req.path>>)

\* The value the handler named h returns for req (create_user_slow: after
\* its delay).
Call(h, req) ==
    CASE h = "get_users" -> get_users(req)
      [] h = "create_user" -> create_user(req)
      [] h = "get_posts" -> get_posts(req)
      [] h = "process_data" -> process_data(req)
      [] h = "handle_api_get_fallback" -> handle_api_get_fallback(req)
      [] h = "handle_post_fallback" -> handle_post_fallback(req)
      [] h = "handle_put_fallback" -> handle_put_fallback(req)
      [] h = "handle_delete_fallback" -> handle_delete_fallback(req)
      [] h = "handle_patch_fallback" -> handle_patch_fallback(req)

(***************************************************************************)
(* #[http(method = "POST", path = "/users-slow")] create_user_slow(req):   *)
(* the handler suspends in sleep(5_000).await and is resumed by the timer. *)
(***************************************************************************)
\* Faulty variant of create_user_slow: the delay blocks the process; the
\* request is answered before anything else is handled.
create_user_slow_Blocking(req) ==
    /\ last' = Event("http", "create_user_slow", 0, req,
                     Ok(ApiResponse_new(req, <<"Created user slowly: ", req.arg>>)),
                     tasks)
    /\ pushed' = <<>>
    /\ UNCHANGED <<tasks, ws_channels, connected, sleeping>>

\* A suspended request: its arguments, and the store at the time it was
\* suspended (observation only).
Suspended(req, store) == [req |-> req, at |-> store]

create_user_slow(req) ==
    /\ Len(sleeping) < MaxSleeping
    /\ sleeping' = Append(sleeping, Suspended(req, tasks))
    /\ last' = Event("http", "create_user_slow", 0, req, "suspended", tasks)
    /\ pushed' = <<>>
    /\ UNCHANGED <<tasks, ws_channels, connected>>

\* Faulty variant of the resumption: the handler writes back the state it
\* was suspended with.
create_user_slow_resume_WriteBack(sleep_ok) ==
    /\ sleeping # <<>>
    /\ LET req == Head(sleeping).req
       IN  last' = [Event("resume", "create_user_slow", 0, req,
                          IF sleep_ok
                          THEN Ok(ApiResponse_new(req, <<"Created user slowly: ", req.arg>>))
                          ELSE Err(<<"failed to sleep: ", "timer">>),
                          tasks)
                      EXCEPT !.pre2 = Head(sleeping).at]
    /\ tasks' = Head(sleeping).at
    /\ sleeping' = Tail(sleeping)
    /\ pushed' = <<>>
    /\ UNCHANGED <<ws_channels, connected>>

create_user_slow_resume(sleep_ok) ==
    /\ sleeping # <<>>
    /\ LET req == Head(sleeping).req
       IN  last' = [Event("resume", "create_user_slow", 0, req,
                          IF sleep_ok
                          THEN Ok(ApiResponse_new(req, <<"Created user slowly: ", req.arg>>))
                          ELSE Err(<<"failed to sleep: ", "timer">>),
                          tasks)
                      EXCEPT !.pre2 = Head(sleeping).at]
    /\ sleeping' = Tail(sleeping)
    /\ pushed' = <<>>
    /\ UNCHANGED <<tasks, ws_channels, connected>>

(***************************************************************************)
(* An HTTP request (method, path) arrives: the router selects a handler    *)
(* and the handler runs.                                                   *)
(***************************************************************************)
http_request(method, path, message) ==
    LET req == Request(method, path, message)
        h == Resolve(method, path)
    IN  IF h = NoRouteFound
        THEN /\ last' = Event("http", "none", 0, req,
                              Err(<<NoRouteFound, method, path>>), tasks)
             /\ pushed' = <<>>
             /\ UNCHANGED <<tasks, ws_channels, connected, sleeping>>
        ELSE IF h = "create_user_slow"
        THEN create_user_slow(req)
        ELSE /\ last' = Event("http", h, 0, req, Call(h, req), tasks)
             /\ pushed' = <<>>
             /\ UNCHANGED <<tasks, ws_channels, connected, sleeping>>

TaskNext ==
    \/ \E text \in Texts : add_task(text)
    \/ \E request \in Messages : get_tasks(request)
    \/ \E task_id \in IdStrings : toggle_task(task_id)
    \/ \E channel_id \in Channels : ws_open(channel_id)
    \/ \E channel_id \in Channels, blob \in Blobs :
         websocket(channel_id, "Text", blob)
    \/ \E channel_id \in Channels, message_type \in WsMessageType \ {"Text"},
          blob \in OtherBlobs :
         websocket(channel_id, message_type, blob)

Spec == Init /\ [][TaskNext]_vars

(***************************************************************************)
(* The routing surface: demo requests through the router, the suspended    *)
(* create_user_slow, and task operations and channels around them.         *)
(***************************************************************************)
RouterNext ==
    \/ \E method \in Methods, path \in Paths, message \in Messages :
         http_request(method, path, message)
    \/ \E sleep_ok \in BOOLEAN : create_user_slow_resume(sleep_ok)
    \/ add_task(<<"a">>)
    \/ toggle_task(1)
    \/ ws_open(1)
    \/ websocket(1, "Text", Blob("json", Str("get_tasks"), Absent, Absent))

RouterSpec == Init /\ [][RouterNext]_vars

(***************************************************************************)
(* Observations on the most recent event.                                  *)
(***************************************************************************)
IsWsText == last.kind = "ws" /\ last.req.message_type = "Text"

IsWsAction(action) ==
    /\ IsWsText
    /\ last.req.blob.enc = "json"
    /\ as_str(last.req.blob.action)
    /\ last.req.blob.action.s = action

IsHttp(handler) == last.kind = "http" /\ last.handler = handler

AllBlank(text) == \A k \in 1..Len(text) : text[k] = " "

PushesTo(c) == {k \in 1..Len(pushed) : pushed[k].chan = c}

\* The channels open while the event was handled.
OpenThen == last.prech[2]

(***************************************************************************)
(* C1: a WebSocket add_task frame with a text that is non-empty after      *)
(* trimming pushes a task_added envelope to every connected channel, the   *)
(* sender included, each with the same tasks snapshot containing the new   *)
(* task.                                                                   *)
(***************************************************************************)
C1_AddBroadcast ==
    (/\ IsWsAction("add_task")
     /\ as_str(last.req.blob.text)
     /\ ~AllBlank(last.req.blob.text.s))
    => /\ Len(tasks) = Len(last.pre) + 1
       /\ \A c \in OpenThen :
            \E k \in PushesTo(c) :
              /\ pushed[k].envelope.type = "task_added"
              /\ pushed[k].envelope.tasks = tasks
              /\ pushed[k].envelope.task = tasks[Len(tasks)]
              /\ pushed[k].envelope.task.text = last.req.blob.text.s

(***************************************************************************)
(* C2: a WebSocket toggle_task frame naming a task of the store flips its  *)
(* completed flag and pushes a task_toggled envelope with the updated task *)
(* and the full snapshot to every connected channel.                       *)
(***************************************************************************)
C2_ToggleBroadcast ==
    (/\ IsWsAction("toggle_task")
     /\ as_str(last.req.blob.id)
     /\ last.req.blob.id.s \in IdsOf(last.pre))
    => \E i \in 1..Len(last.pre) :
         /\ last.pre[i].id = last.req.blob.id.s
         /\ tasks = [last.pre EXCEPT ![i].completed = ~last.pre[i].completed]
         /\ \A c \in OpenThen :
              \E k \in PushesTo(c) :
                /\ pushed[k].envelope.type = "task_toggled"
                /\ pushed[k].envelope.task = tasks[i]
                /\ pushed[k].envelope.tasks = tasks

(***************************************************************************)
(* C3: a WebSocket get_tasks frame from channel c produces exactly one     *)
(* outbound frame, a tasks_overview addressed to c, whose tasks are the    *)
(* store in insertion order; the store is unchanged.                       *)
(***************************************************************************)
C3_GetTasksUnicast ==
    IsWsAction("get_tasks")
    => /\ Len(pushed) = 1
       /\ pushed[1].chan = last.chan
       /\ pushed[1].envelope.type = "tasks_overview"
       /\ pushed[1].envelope.tasks = tasks
       /\ tasks = last.pre

C3_Witness ==
    /\ IsWsAction("get_tasks")
    /\ Len(tasks) = MaxTasks
    /\ Cardinality(connected) >= 2
    /\ last.chan = 2

(***************************************************************************)
(* C4: add_task(text) with a text that is non-empty after trimming returns *)
(* a task with completed = FALSE and an id no task of the store has, and   *)
(* the store afterwards is the previous store with that task appended.     *)
(***************************************************************************)
C4_AddAppends ==
    (IsHttp("add_task") /\ ~AllBlank(last.req))
    => /\ last.ret.ok
       /\ last.ret.val.completed = FALSE
       /\ last.ret.val.id \notin IdsOf(last.pre)
       /\ Len(tasks) = Len(last.pre) + 1
       /\ tasks = Append(last.pre, last.ret.val)
       /\ \A k \in 1..Len(last.pre) : tasks[k] = last.pre[k]

C4_Witness ==
    /\ IsHttp("add_task")
    /\ last.req = <<" ", "a", " ">>
    /\ last.ret.ok
    /\ last.pre # <<>>
    /\ last.pre[1].completed

(***************************************************************************)
(* C5: add_task with an empty or whitespace-only text returns an error and *)
(* leaves the store as it was.                                             *)
(***************************************************************************)
C5_EmptyTextRejected ==
    (IsHttp("add_task") /\ AllBlank(last.req))
    => /\ ~last.ret.ok
       /\ tasks = last.pre

C5_Witness ==
    /\ IsHttp("add_task")
    /\ last.req = <<" ">>
    /\ ~last.ret.ok
    /\ Len(tasks) = 1

(***************************************************************************)
(* C6: toggle_task(id) on an id of the store flips the completed flag of   *)
(* that task only, keeps its id and text, every other task and the order,  *)
(* and returns the updated task; a second toggle of the same id right      *)
(* after restores the store the first one started from.                    *)
(***************************************************************************)
C6_ToggleFlipsOne ==
    (IsHttp("toggle_task") /\ last.req \in IdsOf(last.pre))
    => /\ last.ret.ok
       /\ Len(tasks) = Len(last.pre)
       /\ \A k \in 1..Len(tasks) :
            /\ tasks[k].id = last.pre[k].id
            /\ tasks[k].text = last.pre[k].text
            /\ tasks[k].completed =
                 IF last.pre[k].id = last.req
                 THEN ~last.pre[k].completed
                 ELSE last.pre[k].completed
       /\ last.ret.val \in {tasks[k] : k \in 1..Len(tasks)}
       /\ last.ret.val.id = last.req
       /\ last.again => tasks = last.pre2

C6_Witness ==
    /\ IsHttp("toggle_task")
    /\ last.ret.ok
    /\ last.again
    /\ Len(tasks) = MaxTasks
    /\ last.req = tasks[Len(tasks)].id
    /\ tasks[1].completed

(***************************************************************************)
(* C7: toggle_task(id) with an id no task of the store has returns a       *)
(* not-found error and leaves the store unchanged.                         *)
(***************************************************************************)
C7_ToggleNotFound ==
    (IsHttp("toggle_task") /\ last.req \notin IdsOf(last.pre))
    => /\ ~last.ret.ok
       /\ last.ret.val = <<"Task with id '", last.req, "' not found">>
       /\ tasks = last.pre

C7_Witness ==
    /\ IsHttp("toggle_task")
    /\ ~last.ret.ok
    /\ last.req \in UuidSpace
    /\ tasks # <<>>

(***************************************************************************)
(* Observations on routed requests.                                        *)
(***************************************************************************)
TaskHandlers == {"add_task", "get_tasks", "toggle_task"}

IsRequest == last.kind = "http" /\ last.handler \notin TaskHandlers

FallbackHandlers ==
    {"handle_api_get_fallback", "handle_post_fallback", "handle_put_fallback",
     "handle_delete_fallback", "handle_patch_fallback"}

\* The (method, path) pairs the claim lists, with their handlers.
ListedExact ==
    {<<"GET", <<"users">>, "get_users">>,
     <<"POST", <<"users">>, "create_user">>,
     <<"POST", <<"users-slow">>, "create_user_slow">>,
     <<"GET", <<"posts">>, "get_posts">>,
     <<"POST", <<"api", "data">>, "process_data">>}

HasListedExact(req) ==
    \E e \in ListedExact : e[1] = req.method /\ e[2] = req.path

(***************************************************************************)
(* C8: a request whose (method, path) has an exact route (GET /users,      *)
(* POST /users, POST /users-slow, GET /posts, POST /api/data) is given to  *)
(* the exact-route handler, never to the fallback of its method.           *)
(***************************************************************************)
C8_ExactRouteWins ==
    IsRequest =>
      \A e \in ListedExact :
        (last.req.method = e[1] /\ last.req.path = e[2])
        => /\ last.handler = e[3]
           /\ last.handler \notin FallbackHandlers

C8_Witness ==
    /\ IsRequest
    /\ last.req.method = "GET"
    /\ last.req.path = <<"users">>
    /\ last.handler = "get_users"
    /\ last.ret.data = <<"List of users">>

(***************************************************************************)
(* C9: a PUT, DELETE or PATCH request (none has an exact route) is         *)
(* answered by the catch-all handler of its method, not by a routing       *)
(* failure, and the response data holds the request's method and path.     *)
(***************************************************************************)
C9_CatchAllAnswers ==
    (IsRequest /\ last.req.method \in {"PUT", "DELETE", "PATCH"})
    => /\ last.handler =
            (CASE last.req.method = "PUT" -> "handle_put_fallback"
               [] last.req.method = "DELETE" -> "handle_delete_fallback"
               [] last.req.method = "PATCH" -> "handle_patch_fallback")
       /\ last.ret.status = "success"
       /\ last.ret.data = <<"Catch-all: ", last.req.method, " ", last.req.path>>
       /\ last.ret.method = last.req.method
       /\ last.ret.path = last.req.path

C9_Witness ==
    /\ IsRequest
    /\ last.req.method = "PUT"
    /\ last.req.path = <<"anything">>
    /\ last.handler = "handle_put_fallback"
    /\ last.ret.data = <<"Catch-all: ", "PUT", " ", <<"anything">>>>

(***************************************************************************)
(* C10: a routed request ends in exactly one handler or in NoRouteFound;   *)
(* it fails with NoRouteFound(method, path) when (method, path) has no     *)
(* exact route, the method has no fallback and no catch-all is registered, *)
(* and then no handler runs and the store and the connection sets are      *)
(* unchanged.                                                              *)
(***************************************************************************)
C10_NoRouteFound ==
    IsRequest =>
      LET unrouted == /\ ~HasListedExact(last.req)
                      /\ last.req.method \notin {"GET", "POST", "PUT", "DELETE", "PATCH"}
                      /\ CatchAllRoutes = {}
      IN  /\ unrouted <=> last.handler = "none"
          /\ unrouted =>
               /\ last.ret = Err(<<NoRouteFound, last.req.method, last.req.path>>)
               /\ tasks = last.pre
               /\ <<ws_channels, connected>> = last.prech
               /\ pushed = <<>>

C10_Witness ==
    /\ IsRequest
    /\ last.req.method = "HEAD"
    /\ last.req.path = <<"users">>
    /\ last.handler = "none"
    /\ Len(tasks) = MaxTasks
    /\ tasks[1].completed
    /\ connected # {}

(***************************************************************************)
(* C11: a text frame that is not UTF-8, not JSON, has no string action or  *)
(* an unknown action, and a binary, ping or pong frame, produce no         *)
(* outbound frame on any channel and leave the store unchanged.            *)
(***************************************************************************)
KnownActions == {"get_tasks", "add_task", "toggle_task"}

IsIgnoredFrame ==
    /\ last.kind = "ws"
    /\ \/ last.req.message_type \in {"Binary", "Ping", "Pong"}
       \/ /\ last.req.message_type = "Text"
          /\ \/ last.req.blob.enc # "json"
             \/ ~as_str(last.req.blob.action)
             \/ last.req.blob.action.s \notin KnownActions

C11_IgnoredFrames ==
    IsIgnoredFrame
    => /\ pushed = <<>>
       /\ \A c \in Channels : PushesTo(c) = {}
       /\ tasks = last.pre

C11_Witness ==
    /\ IsIgnoredFrame
    /\ last.req.message_type = "Text"
    /\ last.req.blob.enc = "not_json"
    /\ Len(tasks) = MaxTasks
    /\ Cardinality(connected) >= 2

(***************************************************************************)
(* C12: the active-connections set ws_channels holds channel c exactly     *)
(* when c has connected and has not closed since.                          *)
(***************************************************************************)
C12_ChannelsTracked == ws_channels = connected

(***************************************************************************)
(* C13: while a POST /users-slow request is suspended in its delay, any    *)
(* other HTTP request (GET /users, get_tasks) or WebSocket frame is        *)
(* handled to completion with its own response, the slow request still     *)
(* pending.                                                                *)
(***************************************************************************)
GetTasksBlob == Blob("json", Str("get_tasks"), Absent, Absent)

GetUsersMeanwhile ==
    /\ http_request("GET", <<"users">>, "alice")
    /\ last'.handler = "get_users"
    /\ last'.ret = get_users(Request("GET", <<"users">>, "alice"))
    /\ sleeping' = sleeping

GetTasksMeanwhile ==
    /\ get_tasks("alice")
    /\ last'.ret = Ok(tasks)
    /\ sleeping' = sleeping

WsFrameMeanwhile(c) ==
    /\ websocket(c, "Text", GetTasksBlob)
    /\ pushed' = <<Push(c, TasksOverview(tasks))>>
    /\ sleeping' = sleeping

C13_SlowDoesNotBlock ==
    /\ IsHttp("create_user_slow") => sleeping # <<>>
    /\ sleeping # <<>>
       => /\ ENABLED GetUsersMeanwhile
          /\ ENABLED GetTasksMeanwhile
          /\ \A c \in connected : ENABLED WsFrameMeanwhile(c)

C13_Witness ==
    /\ sleeping # <<>>
    /\ last.kind = "http"
    /\ last.handler = "get_users"
    /\ last.ret.data = <<"List of users">>
    /\ connected # {}

(***************************************************************************)
(* C20: the demo and routing handlers (get_users, create_user,             *)
(* create_user_slow, get_posts, process_data and the five fallbacks) never *)
(* change the task store or the connection sets; what other requests and   *)
(* frames added or toggled while create_user_slow was suspended is still   *)
(* in the store when it has resumed and returned.                          *)
(***************************************************************************)
RoutedHandlers ==
    {"get_users", "create_user", "create_user_slow", "get_posts", "process_data"}
    \cup FallbackHandlers

C20_DemoHandlersFrame ==
    (last.kind \in {"http", "resume"} /\ last.handler \in RoutedHandlers)
    => /\ tasks = last.pre
       /\ <<ws_channels, connected>> = last.prech
       /\ pushed = <<>>

C20_Witness ==
    /\ last.kind = "resume"
    /\ last.handler = "create_user_slow"
    /\ Len(last.pre2) = 1
    /\ Len(tasks) = MaxTasks
    /\ tasks[1].completed # last.pre2[1].completed
    /\ connected # {}

(***************************************************************************)
(* C14: every task_added / task_toggled envelope is pushed in the step     *)
(* that commits its mutation, one per channel and step, and carries the    *)
(* store exactly as that mutation left it; so each channel gets its        *)
(* envelopes in the order the mutations were committed, none with a later  *)
(* mutation included or an earlier one missing.                            *)
(***************************************************************************)
IsMutationPush(k) == pushed[k].envelope.type \in {"task_added", "task_toggled"}

C14_SnapshotAtCommit ==
    \A k \in 1..Len(pushed) :
      IsMutationPush(k)
      => LET e == pushed[k].envelope
         IN  /\ e.tasks = tasks
             /\ tasks # last.pre
             /\ e.type = "task_added" => tasks = Append(last.pre, e.task)
             /\ e.type = "task_toggled"
                => \E i \in 1..Len(last.pre) :
                     /\ e.task = TodoItem(last.pre[i].id, last.pre[i].text,
                                          ~last.pre[i].completed)
                     /\ tasks = [last.pre EXCEPT ![i] = e.task]
             /\ \A j \in PushesTo(pushed[k].chan) : IsMutationPush(j) => j = k

C14_Witness ==
    /\ IsWsAction("toggle_task")
    /\ Len(pushed) = 1
    /\ pushed[1].envelope.type = "task_toggled"
    /\ Len(tasks) = MaxTasks
    /\ tasks[MaxTasks].completed
    /\ ~last.pre[MaxTasks].completed

(***************************************************************************)
(* C15: no two tasks of the store have the same id, whatever the           *)
(* interleaving of HTTP and WebSocket add_task and toggle_task.            *)
(***************************************************************************)
C15_UniqueIds ==
    \A i, j \in 1..Len(tasks) : tasks[i].id = tasks[j].id => i = j

C15_Witness ==
    /\ IsWsAction("add_task")
    /\ Len(tasks) = MaxTasks
    /\ Len(last.pre) = MaxTasks - 1
    /\ last.pre[1].completed

(***************************************************************************)
(* C16: the store is append-only: no step removes a task, changes the id   *)
(* or the text of a task or reorders tasks; the (id, text) pairs before a  *)
(* step are a prefix of those after it.                                    *)
(***************************************************************************)
IdText(store) == [k \in 1..Len(store) |-> <<store[k].id, store[k].text>>]

C16_AppendOnly ==
    [][/\ Len(tasks') >= Len(tasks)
       /\ SubSeq(IdText(tasks'), 1, Len(tasks)) = IdText(tasks)]_vars

C16_Witness ==
    /\ IsWsAction("toggle_task")
    /\ tasks # last.pre
    /\ Len(tasks) = MaxTasks
    /\ tasks[1].completed
    /\ ~last.pre[1].completed

(***************************************************************************)
(* C17: a WebSocket add_task frame whose text is missing, no string, empty *)
(* or whitespace-only, and a toggle_task frame whose id is missing, no     *)
(* string or names no task, are dropped: no outbound frame on any channel  *)
(* and the store unchanged.                                                *)
(***************************************************************************)
IsDroppedCommand ==
    \/ /\ IsWsAction("add_task")
       /\ \/ ~as_str(last.req.blob.text)
          \/ AllBlank(last.req.blob.text.s)
    \/ /\ IsWsAction("toggle_task")
       /\ \/ ~as_str(last.req.blob.id)
          \/ last.req.blob.id.s \notin IdsOf(last.pre)

C17_SilentDrop ==
    IsDroppedCommand
    => /\ pushed = <<>>
       /\ tasks = last.pre

C17_Witness ==
    /\ IsDroppedCommand
    /\ IsWsAction("toggle_task")
    /\ as_str(last.req.blob.id)
    /\ last.req.blob.id.s \in UuidSpace
    /\ tasks # <<>>
    /\ Cardinality(connected) >= 2

(***************************************************************************)
(* C18: an HTTP add_task or toggle_task sends no WebSocket frame; frames   *)
(* go out only while an inbound WebSocket text frame is handled.           *)
(***************************************************************************)
C18_HttpSendsNoFrame ==
    /\ last.kind = "http" => pushed = <<>>
    /\ pushed # <<>> => IsWsText

C18_Witness ==
    /\ IsHttp("add_task")
    /\ last.ret.ok
    /\ tasks # last.pre
    /\ Cardinality(connected) >= 2
    /\ pushed = <<>>

(***************************************************************************)
(* C19: from the same store and the same text, HTTP add_task and the       *)
(* WebSocket add_task command lead to the same stores: both leave the      *)
(* store alone for a blank text and both append one task with completed =  *)
(* FALSE and the text as given, untrimmed, otherwise.  Checked in the      *)
(* states where a channel has just been opened, which include every store  *)
(* with every non-empty set of open channels.                              *)
(***************************************************************************)
AddBlob(text) == Blob("json", Str("add_task"), Str(text), Absent)

HttpAddGives(text, store) == add_task(text) /\ tasks' = store

WsAddGives(c, text, store) ==
    websocket(c, "Text", AddBlob(text)) /\ tasks' = store

AddCandidates(text) ==
    {tasks}
    \cup {Append(tasks, TodoItem(id, x, done)) :
            id \in UuidSpace, x \in {text, Trim(text)}, done \in BOOLEAN}

C19_AddPathsAgree ==
    last.kind = "open"
    => \A text \in Texts :
         \A store \in AddCandidates(text) :
           /\ ENABLED HttpAddGives(text, store) <=> ENABLED WsAddGives(last.chan, text, store)
           /\ ENABLED WsAddGives(last.chan, text, store)
              => IF AllBlank(text)
                 THEN store = tasks
                 ELSE /\ Len(store) = Len(tasks) + 1
                      /\ store[Len(store)].text = text
                      /\ ~store[Len(store)].completed

C19_Witness ==
    /\ last.kind = "open"
    /\ Len(tasks) = 1
    /\ \E id \in UuidSpace :
         LET store == Append(tasks, TodoItem(id, <<" ", "a", " ">>, FALSE))
         IN  /\ ENABLED HttpAddGives(<<" ", "a", " ">>, store)
             /\ ENABLED WsAddGives(last.chan, <<" ", "a", " ">>, store)

====
